---------------------------- MODULE Spec2Model ----------------------------
(***************************************************************************)
(* Model of kiwiidb/rag: the cao-uploader ingestion loop, the POST /query  *)
(* handler and the response normalisation (parseResponse) of package       *)
(* filesearch, the routes and listing handlers of cao-server, and          *)
(* concurrent invocations of the query handler.                            *)
(*                                                                         *)
(* Strings are sequences of atoms.  The atom "/" is the path separator;    *)
(* every other atom is a separator-free run of characters, and distinct    *)
(* atoms denote distinct runs.  The empty string is <<>>.                  *)
(***************************************************************************)
EXTENDS Integers, Sequences, FiniteSets, TLC

(***************************************************************************)
(* Bounds of the model                                                     *)
(***************************************************************************)
\* longest result list the portal's search returns
MaxCandidates == 2
\* number of times the uploader program is run
MaxRuns == 2

\* error values: no error
NIL == "nil"

\* pointers: a nil pointer is the empty sequence, a pointer to x is <<x>>
Nil == <<>>
Ptr(x) == <<x>>
IsNil(p) == p = <<>>
Deref(p) == p[1]

SeqsUpTo(S, n) == UNION {[1..k -> S] : k \in 0..n}

(***************************************************************************)
(* Document source (package caoscrape)                                     *)
(***************************************************************************)
\* baseURL + apiPrefix
documentBase ==
  <<"https:", "/", "/", "public-search.werk.belgie.be", "/",
    "website-service", "/", "joint-work-convention">>

\* the documentLink values the portal's results carry
DocumentLinks ==
  { <<>>,                       \* result without a link
    <<"a.pdf">>,                \* no leading slash
    <<"/", "b", "/", "a.pdf">>, \* another document with the same last segment
    <<"/", "c.pdf">>,
    <<"/">> }                   \* a link that names no file

\* one step of the loop over results in Search: the URL of a result
FullURL(documentLink) ==
  LET link == IF documentLink[1] # "/" THEN <<"/">> \o documentLink
              ELSE documentLink
  IN  documentBase \o link

RECURSIVE SearchURLs(_)
\* Search: the URLs of the results that carry a link, in result order
SearchURLs(results) ==
  IF results = <<>> THEN <<>>
  ELSE LET rest == SearchURLs(Tail(results))
       IN  IF Head(results) # <<>> THEN <<FullURL(Head(results))>> \o rest
           ELSE rest

(***************************************************************************)
(* Uploader helpers (cmd/cao-uploader)                                     *)
(***************************************************************************)
RECURSIVE StripTrailingSlashes(_)
StripTrailingSlashes(path) ==
  IF path # <<>> /\ path[Len(path)] = "/"
  THEN StripTrailingSlashes(SubSeq(path, 1, Len(path) - 1))
  ELSE path

RECURSIVE LastSeparator(_, _)
\* the largest index k <= n with path[k] = "/", or 0
LastSeparator(path, n) ==
  IF n = 0 THEN 0
  ELSE IF path[n] = "/" THEN n ELSE LastSeparator(path, n - 1)

\* filepath.Base as the uploader calls it on a URL
Base(path) ==
  IF path = <<>> THEN <<".">>
  ELSE LET p == StripTrailingSlashes(path)
           e == SubSeq(p, LastSeparator(p, Len(p)) + 1, Len(p))
       IN  IF e = <<>> THEN <<"/">> ELSE e

\* strconv of the small positive integers the model reaches
Itoa(n) == <<"0", "1", "2", "3", "4", "5", "6", "7", "8", "9">>[n + 1]

\* fmt.Sprintf("document_%d.pdf", n)
DocumentN(n) == <<"document_", Itoa(n), ".pdf">>

\* the display name of the candidate at 0-based index i of the loop
FileNameOf(url, i) ==
  LET fileName == Base(url)
  IN  IF fileName = <<>> \/ fileName = <<".">> THEN DocumentN(i + 1)
      ELSE fileName

\* a broken map, keyed by the document's resource name
BuildExistingFiles_ByName(existingDocs) ==
  {existingDocs[k].Name : k \in 1..Len(existingDocs)}

\* the existingFiles map, as the set of its keys
BuildExistingFiles(existingDocs) ==
  {existingDocs[k].DisplayName : k \in 1..Len(existingDocs)}

\* a broken test, which looks the candidate up under its path, a key the
\* map never holds
AlreadyUploaded_ByPath(existingFiles, fileName) ==
  (<<"/">> \o fileName) \in existingFiles

\* the test that skips a candidate
AlreadyUploaded(existingFiles, fileName) == fileName \in existingFiles

storeName == <<"cao-documents">>

(***************************************************************************)
(* Retrieval store gateway (filesearch.Service over the remote service)    *)
(***************************************************************************)
VARIABLES
  stores,        \* remote: sequence of store display names; a store's Name is its index
  docs,          \* remote: sequence of documents [Name, store, DisplayName, CustomMetadata]
  catalog,       \* portal: the results the search returns
  upc,           \* uploader: position in main
  runs,          \* uploader: number of runs started
  store,         \* uploader: Name of the store main resolved (0: none yet)
  urls,          \* uploader: result of scraper.Search
  existingFiles, \* uploader: keys of the existingFiles map
  i,             \* uploader: loop index (0-based)
  uploadedCount,
  skippedCount,
  run,           \* history of the current run (see RunStart)
  prev,          \* history of the run before it
  qpc,           \* query handler: position in Handler.Query
  req,           \* query handler: the HTTP request
  qstore,        \* query handler: Name of the store GetStoreByName returned
  calls,         \* gateway: the calls the query handler made, with their replies
  raw,           \* gateway: the candidates of the generation result
  parsed,        \* query handler: what parseResponse returned (or that it panicked)
  httpResp,      \* query handler: the HTTP response written
  svc,           \* server: the fields of the Service all requests share
  cin,           \* concurrent requests: the HTTP request of each
  cpc,           \* concurrent requests: the position of each in Handler.Query
  cloc,          \* concurrent requests: the local variables of each invocation
  crep,          \* concurrent requests: the gateway's replies to the calls of each
  cout           \* concurrent requests: the HTTP response written to each

remoteVars == <<stores, docs, catalog>>
queryVars == <<qpc, req, qstore, calls, raw, parsed, httpResp>>
vars == <<stores, docs, catalog, upc, runs, store, urls, existingFiles, i,
          uploadedCount, skippedCount, run, prev,
          qpc, req, qstore, calls, raw, parsed, httpResp,
          svc, cin, cpc, cloc, crep, cout>>
concVars == <<svc, cin, cpc, cloc, crep, cout>>

\* NewService as cao-server main calls it
NewService == [modelName |-> "gemini-2.5-flash"]

\* no two requests are being served at once
NoConcurrentRequests ==
  /\ svc = NewService
  /\ cin = <<>>
  /\ cpc = <<>>
  /\ cloc = <<>>
  /\ crep = <<>>
  /\ cout = <<>>

RECURSIVE FirstStoreNamed(_, _, _)
\* GetStoreByName's loop: Name of the first store from index k on with the display name, or 0
FirstStoreNamed(ss, displayName, k) ==
  IF k > Len(ss) THEN 0
  ELSE IF ss[k] = displayName THEN k
  ELSE FirstStoreNamed(ss, displayName, k + 1)

\* GetStoreByName: [err, store]
GetStoreByName(listOk, displayName) ==
  IF ~listOk THEN [err |-> "list", store |-> 0]
  ELSE LET k == FirstStoreNamed(stores, displayName, 1)
       IN  IF k = 0 THEN [err |-> "notfound", store |-> 0]
           ELSE [err |-> NIL, store |-> k]

\* ListDocuments: the documents of one store, in remote order
DocsOfStore(s) == SelectSeq(docs, LAMBDA d : d.store = s)

\* the display names held by store s
NamesInStore(s) == {docs[k].DisplayName : k \in {j \in 1..Len(docs) : docs[j].store = s}}

\* UploadDocumentWithURL: the document the remote store gains; the remote
\* service gives it its resource name
UploadedDocument(fileName, s, sourceURL) ==
  [Name |-> <<"documents", "/", Itoa(Len(docs) + 1)>>,
   store |-> s,
   DisplayName |-> fileName,
   CustomMetadata |-> IF sourceURL # <<>>
                      THEN {[Key |-> "source_url", StringValue |-> sourceURL]}
                      ELSE {}]

\* a broken loop, which fetches and uploads before it looks the name up
Outcomes_NoSkip(existing, fileName) ==
  {"fetchFailed", "uploadFailed", "uploaded"}

\* what one candidate's iteration can come to
Outcomes(existing, fileName) ==
  IF AlreadyUploaded(existing, fileName) THEN {"skipped"}
  ELSE {"fetchFailed", "uploadFailed", "uploaded"}

\* scraper.DownloadDocument is called in the iteration
FetchIssued(outcome) == outcome # "skipped"

\* service.UploadDocumentWithURL is called in the iteration
UploadIssued(outcome) == outcome \in {"uploadFailed", "uploaded"}

\* uploadedCount after an iteration: a broken counter counts a failed upload too
UploadedAfter_CountsFailedUpload(outcome, n) ==
  IF outcome \in {"uploaded", "uploadFailed"} THEN n + 1 ELSE n

\* uploadedCount after an iteration
UploadedAfter(outcome, n) == IF outcome = "uploaded" THEN n + 1 ELSE n

\* skippedCount after an iteration
SkippedAfter(outcome, n) == IF outcome = "skipped" THEN n + 1 ELSE n

\* History of a run: what it listed against, and what each candidate came to.
NoRun ==
  [valid |-> FALSE, store |-> 0, urls |-> <<>>, names |-> <<>>,
   outcomes |-> <<>>, listOk |-> FALSE, preNames |-> {}, preLen |-> 0,
   fetches |-> <<>>, uploads |-> <<>>,
   done |-> FALSE, uploaded |-> 0, skipped |-> 0]

\* History kept of the run before the current one.
NoPrev == [done |-> FALSE, store |-> 0, urls |-> <<>>, failed |-> 0, uploaded |-> 0]

CountOf(outcomes, kinds) ==
  Cardinality({k \in 1..Len(outcomes) : outcomes[k] \in kinds})

Failed(r) == CountOf(r.outcomes, {"fetchFailed", "uploadFailed"})

Summary(r) ==
  [done |-> r.done, store |-> r.store, urls |-> r.urls, failed |-> Failed(r),
   uploaded |-> r.uploaded]

(***************************************************************************)
(* Initial state: an empty service account, any catalog                    *)
(***************************************************************************)
InitIngest ==
  /\ stores = <<>>
  /\ docs = <<>>
  /\ catalog \in SeqsUpTo(DocumentLinks, MaxCandidates)
  /\ upc = "exited"
  /\ runs = 0
  /\ store = 0
  /\ urls = <<>>
  /\ existingFiles = {}
  /\ i = 0
  /\ uploadedCount = 0
  /\ skippedCount = 0
  /\ run = NoRun
  /\ prev = NoPrev
  /\ qpc = "none"
  /\ req = [method |-> "POST", body |-> [malformed |-> TRUE, Query |-> <<>>, StoreName |-> <<>>, History |-> <<>>]]
  /\ qstore = 0
  /\ calls = <<>>
  /\ raw = <<>>
  /\ parsed = Nil
  /\ httpResp = Nil
  /\ NoConcurrentRequests

(***************************************************************************)
(* cao-uploader main                                                       *)
(***************************************************************************)
\* the program is started (again)
RunStart ==
  /\ upc = "exited"
  /\ runs < MaxRuns
  /\ runs' = runs + 1
  /\ upc' = "getStore"
  /\ store' = 0
  /\ urls' = <<>>
  /\ existingFiles' = {}
  /\ i' = 0
  /\ uploadedCount' = 0
  /\ skippedCount' = 0
  /\ prev' = Summary(run)
  /\ run' = NoRun
  /\ UNCHANGED remoteVars
  /\ UNCHANGED queryVars
  /\ UNCHANGED concVars

\* get or create the store: GetStoreByName, then CreateStore on any error
GetOrCreateStore ==
  /\ upc = "getStore"
  /\ \E listOk \in BOOLEAN, createOk \in BOOLEAN :
       LET got == GetStoreByName(listOk, storeName)
       IN  IF got.err = NIL
           THEN /\ store' = got.store
                /\ upc' = "search"
                /\ UNCHANGED stores
           ELSE IF createOk
           THEN /\ stores' = Append(stores, storeName)
                /\ store' = Len(stores) + 1
                /\ upc' = "search"
           ELSE /\ upc' = "exited"       \* log.Fatalf
                /\ UNCHANGED <<stores, store>>
  /\ UNCHANGED <<docs, catalog, runs, urls, existingFiles, i, uploadedCount,
                 skippedCount, run, prev>>
  /\ UNCHANGED queryVars
  /\ UNCHANGED concVars

\* scraper.Search
SearchStep ==
  /\ upc = "search"
  /\ \E ok \in BOOLEAN :
       IF ok
       THEN /\ urls' = SearchURLs(catalog)
            /\ upc' = "list"
       ELSE /\ upc' = "exited"           \* log.Fatalf
            /\ UNCHANGED urls
  /\ UNCHANGED <<remoteVars, runs, store, existingFiles, i, uploadedCount,
                 skippedCount, run, prev>>
  /\ UNCHANGED queryVars
  /\ UNCHANGED concVars

\* a broken fallback, which uses the store's documents though the call failed
ExistingDocs_IgnoresFailure(ok, s) == DocsOfStore(s)

\* existingDocs: the listed documents, or the empty list when the call failed
ExistingDocs(ok, s) == IF ok THEN DocsOfStore(s) ELSE <<>>

\* service.ListDocuments and the existingFiles map
ListExisting ==
  /\ upc = "list"
  /\ \E ok \in BOOLEAN :
       LET existingDocs == ExistingDocs(ok, store)
       IN  /\ existingFiles' = BuildExistingFiles(existingDocs)
           /\ run' = [run EXCEPT !.valid = TRUE, !.store = store, !.urls = urls,
                                 !.listOk = ok,
                                 !.preNames = NamesInStore(store),
                                 !.preLen = Len(DocsOfStore(store))]
  /\ upc' = "loop"
  /\ i' = 0
  /\ uploadedCount' = 0
  /\ skippedCount' = 0
  /\ UNCHANGED <<remoteVars, runs, store, urls, prev>>
  /\ UNCHANGED queryVars
  /\ UNCHANGED concVars

\* one iteration of the loop over urls
LoopIteration ==
  /\ upc = "loop"
  /\ i < Len(urls)
  /\ LET url == urls[i + 1]
         fileName == FileNameOf(url, i)
     IN  \E outcome \in Outcomes(existingFiles, fileName) :
           /\ docs' = IF outcome = "uploaded"
                      THEN Append(docs, UploadedDocument(fileName, store, url))
                      ELSE docs
           /\ uploadedCount' = UploadedAfter(outcome, uploadedCount)
           /\ skippedCount' = SkippedAfter(outcome, skippedCount)
           /\ run' = [run EXCEPT !.names = Append(@, fileName),
                                 !.outcomes = Append(@, outcome),
                                 !.fetches = IF FetchIssued(outcome)
                                             THEN Append(@, url) ELSE @,
                                 !.uploads = IF UploadIssued(outcome)
                                             THEN Append(@, fileName) ELSE @]
  /\ i' = i + 1
  /\ UNCHANGED <<stores, catalog, upc, runs, store, urls, existingFiles, prev>>
  /\ UNCHANGED queryVars
  /\ UNCHANGED concVars

\* the loop is over: the report is printed and the program exits
Report ==
  /\ upc = "loop"
  /\ i >= Len(urls)
  /\ upc' = "exited"
  /\ run' = [run EXCEPT !.done = TRUE, !.uploaded = uploadedCount,
                        !.skipped = skippedCount]
  /\ UNCHANGED <<remoteVars, runs, store, urls, existingFiles, i, uploadedCount,
                 skippedCount, prev>>
  /\ UNCHANGED queryVars
  /\ UNCHANGED concVars

NextIngest ==
  \/ RunStart
  \/ GetOrCreateStore
  \/ SearchStep
  \/ ListExisting
  \/ LoopIteration
  \/ Report

SpecIngest == InitIngest /\ [][NextIngest]_vars

(***************************************************************************)
(* Raw generation results (genai.GenerateContentResponse), as pointers and *)
(* slices: Candidates is a sequence of candidates; Content,                *)
(* CitationMetadata, GroundingMetadata, the parts, Web and                 *)
(* RetrievedContext are pointers.  Text is a sequence of characters.       *)
(***************************************************************************)
\* parts over all candidates of a generated result
MaxParts == 3
\* citations over all candidates of a generated result
MaxCitations == 2
\* grounding chunks over all candidates of a generated result
MaxChunks == 4
\* candidates of a generated result
MaxRawCandidates == 2

TextPart(t) == Ptr([Text |-> t])

PartKinds == {Nil, TextPart(<<>>), TextPart(<<"a", "b">>), TextPart(<<"c">>)}

CitationNoURI == [StartIndex |-> 10, EndIndex |-> 25, URI |-> "", Title |-> "T0"]
CitationWithURI == [StartIndex |-> 0, EndIndex |-> 2, URI |-> "u1", Title |-> "T1"]
CitationKinds == {CitationNoURI, CitationWithURI}

WebOf(u, t) == Ptr([URI |-> u, Title |-> t])
ContextOf(u, t) == Ptr([URI |-> u, Title |-> t])
FileA == [Web |-> Nil, RetrievedContext |-> ContextOf("ua", "fileA")]
FileB == [Web |-> Nil, RetrievedContext |-> ContextOf("ub", "fileB")]
FileC == [Web |-> Nil, RetrievedContext |-> ContextOf("uc", "fileC")]
FileNoURI == [Web |-> Nil, RetrievedContext |-> ContextOf("", "fileD")]
WebOnly == [Web |-> WebOf("w", "WT"), RetrievedContext |-> Nil]
WebAndFileA == [Web |-> WebOf("w", "WT"), RetrievedContext |-> ContextOf("ua2", "fileA")]
ChunkKinds == {FileA, FileB, FileC, FileNoURI, WebOnly, WebAndFileA}

ContentOf(parts) == Ptr([Parts |-> parts])
CitationMetadataOf(citations) == Ptr([Citations |-> citations])
GroundingMetadataOf(chunks) ==
  Ptr([GroundingChunks |-> chunks, WebSearchQueries |-> <<>>])
Candidate(content, cm, gm) ==
  [Content |-> content, CitationMetadata |-> cm, GroundingMetadata |-> gm]

SomeText == ContentOf(<<TextPart(<<"a", "b">>)>>)

\* candidates with every combination of present and absent fields
MixedCandidates ==
  {Candidate(content, cm, gm) :
     content \in {Nil, ContentOf(<<>>), ContentOf(<<Nil>>), SomeText},
     cm \in {Nil, CitationMetadataOf(<<CitationNoURI>>),
             CitationMetadataOf(<<CitationWithURI>>)},
     gm \in {Nil, GroundingMetadataOf(<<FileA>>),
             GroundingMetadataOf(<<WebAndFileA>>)}}

OtherText == ContentOf(<<TextPart(<<"c">>)>>)

\* a citation of the first character of its candidate's text
CitationFirstChar == [StartIndex |-> 0, EndIndex |-> 1, URI |-> "u2", Title |-> "T2"]

\* candidates of different texts, each with a citation of a span of its own text
SpanCandidates ==
  {Candidate(SomeText, CitationMetadataOf(<<CitationWithURI>>), Nil),
   Candidate(OtherText, CitationMetadataOf(<<CitationFirstChar>>), Nil)}

\* the candidates a generated result starts a candidate with
BaseCandidates ==
  {Candidate(Nil, Nil, Nil),
   Candidate(ContentOf(<<>>), Nil, Nil),
   Candidate(SomeText, CitationMetadataOf(<<>>), Nil),
   Candidate(SomeText, Nil, GroundingMetadataOf(<<>>))}
    \cup MixedCandidates \cup SpanCandidates

RECURSIVE Sum(_)
Sum(numbers) == IF numbers = <<>> THEN 0 ELSE Head(numbers) + Sum(Tail(numbers))

NumParts(c) == IF IsNil(c.Content) THEN 0 ELSE Len(Deref(c.Content).Parts)
NumCitations(c) ==
  IF IsNil(c.CitationMetadata) THEN 0 ELSE Len(Deref(c.CitationMetadata).Citations)
NumChunks(c) ==
  IF IsNil(c.GroundingMetadata) THEN 0
  ELSE Len(Deref(c.GroundingMetadata).GroundingChunks)

TotalParts(cands) == Sum([k \in 1..Len(cands) |-> NumParts(cands[k])])
TotalCitations(cands) == Sum([k \in 1..Len(cands) |-> NumCitations(cands[k])])
TotalChunks(cands) == Sum([k \in 1..Len(cands) |-> NumChunks(cands[k])])

\* The generated results the normaliser is run on: results that vary in their
\* parts, in their citations or in their grounding chunks, and results of
\* candidates with every combination of present and absent fields.
GeneratedResult(cands) ==
  /\ Len(cands) <= MaxRawCandidates
  /\ \/ /\ \A k \in 1..Len(cands) :
             IsNil(cands[k].CitationMetadata) /\ IsNil(cands[k].GroundingMetadata)
        /\ TotalParts(cands) <= MaxParts
     \/ /\ \A k \in 1..Len(cands) :
             cands[k].Content = SomeText /\ IsNil(cands[k].GroundingMetadata)
        /\ TotalCitations(cands) <= MaxCitations
     \/ /\ \A k \in 1..Len(cands) :
             cands[k].Content = SomeText /\ IsNil(cands[k].CitationMetadata)
        /\ TotalChunks(cands) <= MaxChunks
     \/ \A k \in 1..Len(cands) : cands[k] \in MixedCandidates
     \/ \A k \in 1..Len(cands) : cands[k] \in SpanCandidates

\* cands with its last candidate replaced
WithLast(cands, c) == [cands EXCEPT ![Len(cands)] = c]

\* the generation results the handler model is run on
QueryRaws == {<<>>} \cup {<<c>> : c \in MixedCandidates}

(***************************************************************************)
(* Service.parseResponse                                                   *)
(***************************************************************************)
EmptyResponse ==
  [panicked |-> FALSE, Parts |-> <<>>, Citations |-> <<>>, GroundingSupport |-> Nil]

\* a nil pointer was dereferenced: the call does not return
Panicked ==
  [panicked |-> TRUE, Parts |-> <<>>, Citations |-> <<>>, GroundingSupport |-> Nil]

RECURSIVE NonEmptyTexts(_)
\* the loop over cand.Content.Parts, no part being nil
NonEmptyTexts(parts) ==
  IF parts = <<>> THEN <<>>
  ELSE LET text == Deref(Head(parts)).Text
       IN  (IF text # <<>> THEN <<text>> ELSE <<>>) \o NonEmptyTexts(Tail(parts))

\* the Citation built from one raw citation
CitationOf(citation) ==
  [StartIndex |-> citation.StartIndex,
   EndIndex |-> citation.EndIndex,
   Sources |-> IF citation.URI # ""
               THEN <<[Title |-> citation.Title, URI |-> citation.URI]>>
               ELSE <<>>]

RECURSIVE MapCitations(_)
MapCitations(citations) ==
  IF citations = <<>> THEN <<>>
  ELSE <<CitationOf(Head(citations))>> \o MapCitations(Tail(citations))

\* a broken extraction, which drops the citations that carry no URI
CitationsOf_DropsNoURI(cm) ==
  IF ~IsNil(cm)
  THEN MapCitations(SelectSeq(Deref(cm).Citations, LAMBDA c : c.URI # ""))
  ELSE <<>>

\* the citations one candidate adds
CitationsOf(cm) ==
  IF ~IsNil(cm) /\ Len(Deref(cm).Citations) > 0
  THEN MapCitations(Deref(cm).Citations)
  ELSE <<>>

\* the GroundingChunk built from one raw chunk
GroundingChunkOf(chunk) ==
  [Web |-> IF ~IsNil(chunk.Web)
           THEN Ptr([URI |-> Deref(chunk.Web).URI, Title |-> Deref(chunk.Web).Title])
           ELSE Nil,
   File |-> IF ~IsNil(chunk.RetrievedContext) /\ Deref(chunk.RetrievedContext).URI # ""
            THEN Ptr([FileName |-> Deref(chunk.RetrievedContext).Title,
                      URI |-> Deref(chunk.RetrievedContext).URI])
            ELSE Nil]

RECURSIVE MapChunks(_)
MapChunks(chunks) ==
  IF chunks = <<>> THEN <<>>
  ELSE <<GroundingChunkOf(Head(chunks))>> \o MapChunks(Tail(chunks))

\* the GroundingSupport one candidate's grounding metadata sets
GroundingSupportOf(gm) ==
  [GroundingChunks |-> MapChunks(gm.GroundingChunks),
   WebSearchQueries |-> gm.WebSearchQueries]

\* one iteration of the loop over resp.Candidates
ParseCandidate(response, cand) ==
  IF response.panicked THEN response
  ELSE IF IsNil(cand.Content) THEN Panicked
  ELSE LET parts == Deref(cand.Content).Parts
       IN  IF \E k \in 1..Len(parts) : IsNil(parts[k]) THEN Panicked
           ELSE [panicked |-> FALSE,
                 Parts |-> response.Parts \o NonEmptyTexts(parts),
                 Citations |-> response.Citations \o CitationsOf(cand.CitationMetadata),
                 GroundingSupport |->
                   IF ~IsNil(cand.GroundingMetadata)
                   THEN Ptr(GroundingSupportOf(Deref(cand.GroundingMetadata)))
                   ELSE response.GroundingSupport]

RECURSIVE ParseCandidates(_, _)
ParseCandidates(response, cands) ==
  IF cands = <<>> THEN response
  ELSE ParseCandidates(ParseCandidate(response, Head(cands)), Tail(cands))

parseResponse(candidates) == ParseCandidates(EmptyResponse, candidates)

(***************************************************************************)
(* Service.PromptWithHistory: the prompt                                   *)
(***************************************************************************)
\* the dynamic value Handler.Query passes as history: a []HistoryMessage
HistoryArg(history) == [type |-> "[]HistoryMessage", val |-> history]

RECURSIVE Transcript(_)
\* the loop over historySlice: each element that is a map adds "role: content\n"
Transcript(historySlice) ==
  IF historySlice = <<>> THEN <<>>
  ELSE LET msg == Head(historySlice)
       IN  (IF msg.type = "map[string]interface{}"
            THEN <<msg.role, ": ", msg.content, "\n">>
            ELSE <<>>) \o Transcript(Tail(historySlice))

\* fullPrompt: the history is rendered only when it is a non-empty []interface{}
FullPrompt(prompt, history) ==
  IF history.type # "nil" /\ history.type = "[]interface{}" /\ Len(history.val) > 0
  THEN <<"Previous conversation:\n">> \o Transcript(history.val)
         \o <<"\nCurrent question: ">> \o prompt
  ELSE prompt

(***************************************************************************)
(* Handler.Query                                                           *)
(***************************************************************************)
RECURSIVE Concat(_)
\* a broken join, which puts each part before the ones already joined
Concat_Reversed(parts) ==
  IF parts = <<>> THEN <<>> ELSE Concat(Tail(parts)) \o Head(parts)

\* response.Answer: the parts joined
Concat(parts) == IF parts = <<>> THEN <<>> ELSE Head(parts) \o Concat(Tail(parts))

RECURSIVE UniqueSourcesFrom(_, _)
\* the loop over GroundingChunks with the seenSources map
UniqueSourcesFrom(chunks, seenSources) ==
  IF chunks = <<>> THEN <<>>
  ELSE LET chunk == Head(chunks)
       IN  IF ~IsNil(chunk.File) /\ Deref(chunk.File).FileName \notin seenSources
           THEN <<[FileName |-> Deref(chunk.File).FileName, URI |-> Deref(chunk.File).URI]>>
                  \o UniqueSourcesFrom(Tail(chunks),
                                       seenSources \cup {Deref(chunk.File).FileName})
           ELSE UniqueSourcesFrom(Tail(chunks), seenSources)

\* a broken loop, which never marks a file name as seen
UniqueSources_NoDedup(groundingSupport) ==
  IF ~IsNil(groundingSupport)
  THEN LET files == SelectSeq(Deref(groundingSupport).GroundingChunks,
                              LAMBDA c : ~IsNil(c.File))
       IN  [k \in 1..Len(files) |->
              [FileName |-> Deref(files[k].File).FileName, URI |-> Deref(files[k].File).URI]]
  ELSE <<>>

\* response.Sources
UniqueSources(groundingSupport) ==
  IF ~IsNil(groundingSupport)
  THEN UniqueSourcesFrom(Deref(groundingSupport).GroundingChunks, {})
  ELSE <<>>

\* the QueryResponse of a successful query
QueryResponseOf(resp) ==
  [Answer |-> Concat(resp.Parts),
   Sources |-> UniqueSources(resp.GroundingSupport),
   Citations |-> resp.Citations,
   GroundingSupport |-> resp.GroundingSupport,
   Error |-> ""]

\* QueryResponse{Error: msg}
ErrorResponse(msg) ==
  [Answer |-> <<>>, Sources |-> <<>>, Citations |-> <<>>, GroundingSupport |-> Nil,
   Error |-> msg]

\* http.Error: a plain-text body
PlainError(status, msg) ==
  Ptr([status |-> status, contentType |-> "text/plain; charset=utf-8",
       json |-> FALSE, text |-> msg, body |-> ErrorResponse("")])

\* w.WriteHeader(status), then the JSON encoding of an error response; no
\* Content-Type is set, so the server derives it from the body
JSONError(status, msg) ==
  Ptr([status |-> status, contentType |-> "text/plain; charset=utf-8",
       json |-> TRUE, text |-> "", body |-> ErrorResponse(msg)])

\* Content-Type set, then the JSON encoding of the response, status 200
JSONOk(response) ==
  Ptr([status |-> 200, contentType |-> "application/json",
       json |-> TRUE, text |-> "", body |-> response])

(***************************************************************************)
(* cao-querier main: the sources it prints                                 *)
(***************************************************************************)
QuerierSources(resp) ==
  IF ~IsNil(resp.GroundingSupport) /\ Len(Deref(resp.GroundingSupport).GroundingChunks) > 0
  THEN LET srcs == UniqueSourcesFrom(Deref(resp.GroundingSupport).GroundingChunks, {})
       IN  [k \in 1..Len(srcs) |-> srcs[k].FileName]
  ELSE <<>>

(***************************************************************************)
(* Requests                                                                *)
(***************************************************************************)
Methods == {"POST", "GET"}
Queries == {<<>>, <<"Q2">>}
StoreNames == {<<>>, storeName, <<"missing">>}
Histories ==
  { <<>>,
    <<[Role |-> "user", Content |-> "Q1"]>>,
    <<[Role |-> "user", Content |-> "Q1"], [Role |-> "assistant", Content |-> "A1"]>> }

MalformedBody == [malformed |-> TRUE, Query |-> <<>>, StoreName |-> <<>>, History |-> <<>>]
Bodies ==
  {MalformedBody} \cup
  {[malformed |-> FALSE, Query |-> q, StoreName |-> s, History |-> h] :
     q \in Queries, s \in StoreNames, h \in Histories}
Requests == {[method |-> m, body |-> b] : m \in Methods, b \in Bodies}

\* the stores of the account when a query arrives
StoreLists ==
  {<<>>, <<storeName>>, <<<<"my-documents">>, storeName>>, <<storeName, storeName>>}

UploaderNotRunning ==
  /\ docs = <<>>
  /\ catalog = <<>>
  /\ upc = "exited"
  /\ runs = 0
  /\ store = 0
  /\ urls = <<>>
  /\ existingFiles = {}
  /\ i = 0
  /\ uploadedCount = 0
  /\ skippedCount = 0
  /\ run = NoRun
  /\ prev = NoPrev

\* a request has arrived
InitQuery ==
  /\ UploaderNotRunning
  /\ stores \in StoreLists
  /\ qpc = "received"
  /\ req \in Requests
  /\ qstore = 0
  /\ calls = <<>>
  /\ raw = <<>>
  /\ parsed = Nil
  /\ httpResp = Nil
  /\ NoConcurrentRequests

ingestVars == <<docs, catalog, upc, runs, store, urls, existingFiles, i,
                uploadedCount, skippedCount, run, prev>>

\* method check, decoding and validation of the request
QueryValidate ==
  /\ qpc = "received"
  /\ IF req.method # "POST"
     THEN /\ httpResp' = PlainError(405, "Method not allowed")
          /\ qpc' = "responded"
     ELSE IF req.body.malformed
     THEN /\ httpResp' = JSONError(400, "Invalid request body")
          /\ qpc' = "responded"
     ELSE IF req.body.Query = <<>>
     THEN /\ httpResp' = JSONError(400, "Query is required")
          /\ qpc' = "responded"
     ELSE IF req.body.StoreName = <<>>
     THEN /\ httpResp' = JSONError(400, "StoreName is required")
          /\ qpc' = "responded"
     ELSE /\ qpc' = "getStore"
          /\ UNCHANGED httpResp
  /\ UNCHANGED <<stores, ingestVars, concVars, req, qstore, calls, raw, parsed>>

\* GetStoreByName: any error is answered 404
QueryGetStore ==
  /\ qpc = "getStore"
  /\ \E listOk \in BOOLEAN :
       LET got == GetStoreByName(listOk, req.body.StoreName)
       IN  /\ calls' = Append(calls, [call |-> "ListStores", ok |-> listOk])
           /\ IF got.err # NIL
              THEN /\ httpResp' = JSONError(404, "Store not found")
                   /\ qpc' = "responded"
                   /\ UNCHANGED qstore
              ELSE /\ qstore' = got.store
                   /\ qpc' = "prompt"
                   /\ UNCHANGED httpResp
  /\ UNCHANGED <<stores, ingestVars, concVars, req, raw, parsed>>

\* PromptWithHistory up to the return of GenerateContent
QueryGenerate ==
  /\ qpc = "prompt"
  /\ \E ok \in BOOLEAN :
       /\ calls' = Append(calls,
                          [call |-> "GenerateContent", ok |-> ok,
                           prompt |-> FullPrompt(req.body.Query, HistoryArg(req.body.History)),
                           storeNames |-> <<qstore>>])
       /\ IF ok
          THEN /\ raw' \in QueryRaws
               /\ qpc' = "generated"
               /\ UNCHANGED httpResp
          ELSE /\ httpResp' = JSONError(500, "Failed to execute query")
               /\ qpc' = "responded"
               /\ UNCHANGED raw
  /\ UNCHANGED <<stores, ingestVars, concVars, req, qstore, parsed>>

\* parseResponse, then the response is built and written; a panic leaves
\* the request without a response
QueryRespond ==
  /\ qpc = "generated"
  /\ LET resp == parseResponse(raw)
     IN  /\ parsed' = Ptr(resp)
         /\ IF resp.panicked
            THEN /\ qpc' = "panicked"
                 /\ UNCHANGED httpResp
            ELSE /\ httpResp' = JSONOk(QueryResponseOf(resp))
                 /\ qpc' = "responded"
  /\ UNCHANGED <<stores, ingestVars, concVars, req, qstore, calls, raw>>

NextQuery ==
  \/ QueryValidate
  \/ QueryGetStore
  \/ QueryGenerate
  \/ QueryRespond

SpecQuery == InitQuery /\ [][NextQuery]_vars

\* GenerateContent has been called for a valid request
InitNormalize ==
  /\ UploaderNotRunning
  /\ stores = <<storeName>>
  /\ qpc = "generating"
  /\ req = [method |-> "POST",
            body |-> [malformed |-> FALSE, Query |-> <<"Q2">>,
                      StoreName |-> storeName, History |-> <<>>]]
  /\ qstore = 1
  /\ calls = <<[call |-> "ListStores", ok |-> TRUE],
               [call |-> "GenerateContent", ok |-> TRUE,
                prompt |-> <<"Q2">>, storeNames |-> <<1>>]>>
  /\ raw = <<>>
  /\ parsed = Nil
  /\ httpResp = Nil
  /\ NoConcurrentRequests

\* the remote model emits its result: one more candidate
EmitCandidate ==
  /\ qpc = "generating"
  /\ \E c \in BaseCandidates :
       /\ GeneratedResult(Append(raw, c))
       /\ raw' = Append(raw, c)
  /\ UNCHANGED <<stores, ingestVars, concVars, qpc, req, qstore, calls, parsed, httpResp>>

\* one more part of the last candidate
EmitPart ==
  /\ qpc = "generating"
  /\ raw # <<>>
  /\ ~IsNil(raw[Len(raw)].Content)
  /\ \E p \in PartKinds :
       LET last == raw[Len(raw)]
           r == WithLast(raw, [last EXCEPT !.Content =
                                 ContentOf(Append(Deref(last.Content).Parts, p))])
       IN  /\ GeneratedResult(r)
           /\ raw' = r
  /\ UNCHANGED <<stores, ingestVars, concVars, qpc, req, qstore, calls, parsed, httpResp>>

\* one more citation of the last candidate
EmitCitation ==
  /\ qpc = "generating"
  /\ raw # <<>>
  /\ ~IsNil(raw[Len(raw)].CitationMetadata)
  /\ \E ci \in CitationKinds :
       LET last == raw[Len(raw)]
           r == WithLast(raw, [last EXCEPT !.CitationMetadata =
                                 CitationMetadataOf(
                                   Append(Deref(last.CitationMetadata).Citations, ci))])
       IN  /\ GeneratedResult(r)
           /\ raw' = r
  /\ UNCHANGED <<stores, ingestVars, concVars, qpc, req, qstore, calls, parsed, httpResp>>

\* one more grounding chunk of the last candidate
EmitChunk ==
  /\ qpc = "generating"
  /\ raw # <<>>
  /\ ~IsNil(raw[Len(raw)].GroundingMetadata)
  /\ \E g \in ChunkKinds :
       LET last == raw[Len(raw)]
           r == WithLast(raw, [last EXCEPT !.GroundingMetadata =
                                 GroundingMetadataOf(
                                   Append(Deref(last.GroundingMetadata).GroundingChunks, g))])
       IN  /\ GeneratedResult(r)
           /\ raw' = r
  /\ UNCHANGED <<stores, ingestVars, concVars, qpc, req, qstore, calls, parsed, httpResp>>

\* GenerateContent returns the result
GenerateReturns ==
  /\ qpc = "generating"
  /\ qpc' = "generated"
  /\ UNCHANGED <<stores, ingestVars, concVars, req, qstore, calls, raw, parsed, httpResp>>

NextNormalize ==
  \/ EmitCandidate
  \/ EmitPart
  \/ EmitCitation
  \/ EmitChunk
  \/ GenerateReturns
  \/ QueryRespond

SpecNormalize == InitNormalize /\ [][NextNormalize]_vars

(***************************************************************************)
(* The request surface of cao-server: the routes and the listing handlers  *)
(***************************************************************************)
\* the resource name of the store with index k
StoreResource(k) == <<"fileSearchStores", "/", Itoa(k)>>

\* the storeName query parameter of a request to /documents
StoreParams == {<<>>, StoreResource(1)}

\* a request without a JSON body
NoBody == MalformedBody

\* the requests that reach the three registered handlers
SurfaceRequests ==
  {[path |-> "/query", method |-> r.method, body |-> r.body, storeName |-> <<>>] :
     r \in Requests}
  \cup {[path |-> "/stores", method |-> m, body |-> NoBody, storeName |-> <<>>] :
          m \in Methods}
  \cup {[path |-> "/documents", method |-> m, body |-> NoBody, storeName |-> sp] :
          m \in Methods, sp \in StoreParams}

\* ListStores: the stores of the account
StoresListed == [k \in 1..Len(stores) |-> [Name |-> StoreResource(k), DisplayName |-> stores[k]]]

\* ListDocuments of the store with the resource name
DocumentsListed(resource) ==
  SelectSeq(docs, LAMBDA d : StoreResource(d.store) = resource)

\* w.WriteHeader(status), then the JSON encoding of map[string]string{"error": msg}
MapError(status, msg) ==
  Ptr([status |-> status, contentType |-> "text/plain; charset=utf-8",
       json |-> TRUE, text |-> "", body |-> [error |-> msg]])

\* Content-Type set, then the JSON encoding of a list, status 200
JSONList(items) ==
  Ptr([status |-> 200, contentType |-> "application/json",
       json |-> TRUE, text |-> "", body |-> items])

\* a request has reached the server
InitSurface ==
  /\ UploaderNotRunning
  /\ stores \in StoreLists
  /\ qpc = "arrived"
  /\ req \in SurfaceRequests
  /\ qstore = 0
  /\ calls = <<>>
  /\ raw = <<>>
  /\ parsed = Nil
  /\ httpResp = Nil
  /\ NoConcurrentRequests

\* the routes registered in cao-server main
Route ==
  /\ qpc = "arrived"
  /\ qpc' = CASE req.path = "/query" -> "received"
             [] req.path = "/stores" -> "stores"
             [] req.path = "/documents" -> "documents"
  /\ UNCHANGED <<stores, ingestVars, concVars, req, qstore, calls, raw, parsed, httpResp>>

ListStoresHandler ==
  /\ qpc = "stores"
  /\ IF req.method # "GET"
     THEN /\ httpResp' = PlainError(405, "Method not allowed")
          /\ UNCHANGED calls
     ELSE \E ok \in BOOLEAN :
            /\ calls' = Append(calls, [call |-> "ListStores", ok |-> ok])
            /\ httpResp' = IF ok THEN JSONList(StoresListed)
                           ELSE MapError(500, "Failed to list stores")
  /\ qpc' = "responded"
  /\ UNCHANGED <<stores, ingestVars, concVars, req, qstore, raw, parsed>>

ListDocumentsHandler ==
  /\ qpc = "documents"
  /\ IF req.method # "GET"
     THEN /\ httpResp' = PlainError(405, "Method not allowed")
          /\ UNCHANGED calls
     ELSE IF req.storeName = <<>>
     THEN /\ httpResp' = MapError(400, "storeName query parameter is required")
          /\ UNCHANGED calls
     ELSE \E ok \in BOOLEAN :
            /\ calls' = Append(calls, [call |-> "ListDocuments", ok |-> ok])
            /\ httpResp' = IF ok THEN JSONList(DocumentsListed(req.storeName))
                           ELSE MapError(500, "Failed to list documents")
  /\ qpc' = "responded"
  /\ UNCHANGED <<stores, ingestVars, concVars, req, qstore, raw, parsed>>

NextSurface ==
  \/ Route
  \/ QueryValidate
  \/ QueryGetStore
  \/ QueryGenerate
  \/ QueryRespond
  \/ ListStoresHandler
  \/ ListDocumentsHandler

SpecSurface == InitSurface /\ [][NextSurface]_vars

(***************************************************************************)
(* Concurrent POST /query requests: net/http runs Handler.Query once per   *)
(* request, each invocation in a goroutine of its own.  The steps of an    *)
(* invocation are the steps of the handler above; between two of them the  *)
(* other invocations may run.                                              *)
(***************************************************************************)
\* number of requests served at once
MaxRequests == 2

RequestIds == 1..MaxRequests

ConcBodies ==
  { MalformedBody,
    [malformed |-> FALSE, Query |-> <<>>, StoreName |-> storeName, History |-> <<>>],
    [malformed |-> FALSE, Query |-> <<"Q2">>, StoreName |-> storeName, History |-> <<>>],
    [malformed |-> FALSE, Query |-> <<"Q3">>, StoreName |-> <<"my-documents">>,
     History |-> <<>>] }

ConcRequests == {[method |-> m, body |-> b] : m \in Methods, b \in ConcBodies}

\* the generation results the concurrent requests get
ConcRaws ==
  { <<>>,
    <<Candidate(SomeText, Nil, GroundingMetadataOf(<<FileA>>))>>,
    <<Candidate(ContentOf(<<TextPart(<<"c">>)>>), Nil, GroundingMetadataOf(<<FileB>>))>> }

\* the local variables of an invocation of Handler.Query: req, store, and
\* the result of GenerateContent that parseResponse is given
NoLocals == [req |-> MalformedBody, store |-> 0, raw |-> <<>>]

\* the replies of the gateway to the calls of one request, with the
\* arguments of its generation call
NoReplies ==
  [listed |-> FALSE, listOk |-> FALSE, generated |-> FALSE, genOk |-> FALSE,
   raw |-> <<>>, model |-> "", prompt |-> <<>>, storeNames |-> <<>>]

\* a process-wide variable in place of the locals
Slot_ProcessWide(r) == 1

\* where the locals of the invocation serving request r live: each
\* invocation has its own
Slot(r) == r

InitConcurrent ==
  /\ UploaderNotRunning
  /\ stores = <<<<"my-documents">>, storeName>>
  /\ qpc = "none"
  /\ req = [method |-> "POST", body |-> MalformedBody]
  /\ qstore = 0
  /\ calls = <<>>
  /\ raw = <<>>
  /\ parsed = Nil
  /\ httpResp = Nil
  /\ svc = NewService
  /\ cin \in [RequestIds -> ConcRequests]
  /\ cpc = [r \in RequestIds |-> "received"]
  /\ cloc = [r \in RequestIds |-> NoLocals]
  /\ crep = [r \in RequestIds |-> NoReplies]
  /\ cout = [r \in RequestIds |-> Nil]

singleVars == <<stores, ingestVars, qpc, req, qstore, calls, raw, parsed, httpResp>>

\* method check, decoding into the local req, validation
ConcValidate(r) ==
  /\ cpc[r] = "received"
  /\ IF cin[r].method # "POST"
     THEN /\ cout' = [cout EXCEPT ![r] = PlainError(405, "Method not allowed")]
          /\ cpc' = [cpc EXCEPT ![r] = "responded"]
          /\ UNCHANGED cloc
     ELSE IF cin[r].body.malformed
     THEN /\ cout' = [cout EXCEPT ![r] = JSONError(400, "Invalid request body")]
          /\ cpc' = [cpc EXCEPT ![r] = "responded"]
          /\ UNCHANGED cloc
     ELSE /\ cloc' = [cloc EXCEPT ![Slot(r)].req = cin[r].body]
          /\ IF cin[r].body.Query = <<>>
             THEN /\ cout' = [cout EXCEPT ![r] = JSONError(400, "Query is required")]
                  /\ cpc' = [cpc EXCEPT ![r] = "responded"]
             ELSE IF cin[r].body.StoreName = <<>>
             THEN /\ cout' = [cout EXCEPT ![r] = JSONError(400, "StoreName is required")]
                  /\ cpc' = [cpc EXCEPT ![r] = "responded"]
             ELSE /\ cpc' = [cpc EXCEPT ![r] = "getStore"]
                  /\ UNCHANGED cout
  /\ UNCHANGED <<singleVars, svc, cin, crep>>

\* GetStoreByName with the local req.StoreName, into the local store
ConcGetStore(r) ==
  /\ cpc[r] = "getStore"
  /\ \E listOk \in BOOLEAN :
       LET got == GetStoreByName(listOk, cloc[Slot(r)].req.StoreName)
       IN  /\ crep' = [crep EXCEPT ![r].listed = TRUE, ![r].listOk = listOk]
           /\ IF got.err # NIL
              THEN /\ cout' = [cout EXCEPT ![r] = JSONError(404, "Store not found")]
                   /\ cpc' = [cpc EXCEPT ![r] = "responded"]
                   /\ UNCHANGED cloc
              ELSE /\ cloc' = [cloc EXCEPT ![Slot(r)].store = got.store]
                   /\ cpc' = [cpc EXCEPT ![r] = "prompt"]
                   /\ UNCHANGED cout
  /\ UNCHANGED <<singleVars, svc, cin>>

\* PromptWithHistory up to the return of GenerateContent
ConcGenerate(r) ==
  /\ cpc[r] = "prompt"
  /\ \E ok \in BOOLEAN, result \in ConcRaws :
       /\ ok \/ result = <<>>
       /\ crep' = [crep EXCEPT ![r].generated = TRUE, ![r].genOk = ok,
                               ![r].raw = result,
                               ![r].model = svc.modelName,
                               ![r].prompt = FullPrompt(cloc[Slot(r)].req.Query,
                                                        HistoryArg(cloc[Slot(r)].req.History)),
                               ![r].storeNames = <<cloc[Slot(r)].store>>]
       /\ IF ok
          THEN /\ cloc' = [cloc EXCEPT ![Slot(r)].raw = result]
               /\ cpc' = [cpc EXCEPT ![r] = "generated"]
               /\ UNCHANGED cout
          ELSE /\ cout' = [cout EXCEPT ![r] = JSONError(500, "Failed to execute query")]
               /\ cpc' = [cpc EXCEPT ![r] = "responded"]
               /\ UNCHANGED cloc
  /\ UNCHANGED <<singleVars, svc, cin>>

\* parseResponse, then the response is built and written
ConcRespond(r) ==
  /\ cpc[r] = "generated"
  /\ LET resp == parseResponse(cloc[Slot(r)].raw)
     IN  IF resp.panicked
         THEN /\ cpc' = [cpc EXCEPT ![r] = "panicked"]
              /\ UNCHANGED cout
         ELSE /\ cout' = [cout EXCEPT ![r] = JSONOk(QueryResponseOf(resp))]
              /\ cpc' = [cpc EXCEPT ![r] = "responded"]
  /\ UNCHANGED <<singleVars, svc, cin, cloc, crep>>

NextConcurrent ==
  \/ \E r \in RequestIds : ConcValidate(r)
  \/ \E r \in RequestIds : ConcGetStore(r)
  \/ \E r \in RequestIds : ConcGenerate(r)
  \/ \E r \in RequestIds : ConcRespond(r)

SpecConcurrent == InitConcurrent /\ [][NextConcurrent]_vars

(***************************************************************************)
(* Claims about ingestion (checked under SpecIngest)                       *)
(***************************************************************************)
\* the display names the current run has uploaded: what its store gained
UploadedNames ==
  LET ds == DocsOfStore(run.store)
  IN  {ds[k].DisplayName : k \in (run.preLen + 1)..Len(ds)}

SameInputs == run.done /\ prev.done /\ prev.urls = run.urls /\ prev.store = run.store

C3_OneDocumentPerName ==
  \A j, k \in 1..Len(docs) :
    (j # k /\ docs[j].store = docs[k].store)
      => docs[j].DisplayName # docs[k].DisplayName

\* a source URL that names no file: empty, or ending in "/"
NamesNoFile(url) == url = <<>> \/ url[Len(url)] = "/"

\* C4: a candidate whose URL names no file is named document_<position>.pdf,
\* and the synthesized names of one batch are pairwise different.
C4_FilenameFallback ==
  /\ \A k \in 1..Len(run.names) :
        NamesNoFile(run.urls[k]) => run.names[k] = DocumentN(k)
  /\ \A j, k \in 1..Len(run.names) :
        (j # k /\ NamesNoFile(run.urls[j]) /\ NamesNoFile(run.urls[k]))
          => run.names[j] # run.names[k]

\* C10: a failed candidate does not end the run, and the report counts what
\* happened: uploaded is what the store gained, skipped is the number of
\* candidates found in the existing set, and with the failures they add up
\* to the number of candidates.
C10_FailuresIsolated ==
  run.done =>
    /\ Len(run.outcomes) = Len(run.urls)
    /\ run.uploaded = Len(DocsOfStore(run.store)) - run.preLen
    /\ run.skipped =
         Cardinality({k \in 1..Len(run.urls) : run.names[k] \in existingFiles})
    /\ run.uploaded + run.skipped + Failed(run) = Len(run.urls)

C10_Witness ==
  /\ run.done /\ Len(run.urls) = 2
  /\ run.outcomes[1] \in {"fetchFailed", "uploadFailed"}
  /\ run.outcomes[2] = "uploaded"
  /\ run.uploaded = 1

\* C11: an iteration over a candidate whose display name is in the
\* existing-names set issues no fetch call and no upload call, leaves the
\* stores and their documents as they are, and changes no counter but
\* skipped, which it increments.
C11_SkipTouchesNothing ==
  [][(upc = "loop" /\ i < Len(urls)
        /\ FileNameOf(urls[i + 1], i) \in existingFiles)
       => /\ run'.fetches = run.fetches
          /\ run'.uploads = run.uploads
          /\ docs' = docs
          /\ stores' = stores
          /\ uploadedCount' = uploadedCount
          /\ skippedCount' = skippedCount + 1
          /\ existingFiles' = existingFiles]_vars

C11_Witness ==
  /\ run.valid /\ run.listOk
  /\ Len(run.outcomes) = 2
  /\ run.names[1] \in existingFiles /\ run.names[2] \notin existingFiles
  /\ run.outcomes = <<"skipped", "uploaded">>
  /\ run.fetches = <<run.urls[2]>>
  /\ skippedCount = 1 /\ uploadedCount = 1

\* C16: a run whose listing of existing documents failed goes on with an
\* empty existing-names set: it skips no candidate, calls the fetch for
\* every candidate it processes and the upload for every candidate fetched,
\* and ends with its report, after the last candidate.
C16_ListingFailureTreatsAllAsNew ==
  (run.valid /\ ~run.listOk) =>
    /\ existingFiles = {}
    /\ skippedCount = 0
    /\ \A k \in 1..Len(run.outcomes) : run.outcomes[k] # "skipped"
    /\ run.fetches = SubSeq(run.urls, 1, Len(run.outcomes))
    /\ Len(run.uploads) = Len(run.outcomes) - CountOf(run.outcomes, {"fetchFailed"})
    /\ upc \in {"loop", "exited"}
    /\ upc = "exited" =>
          /\ run.done
          /\ Len(run.outcomes) = Len(run.urls)
          /\ run.skipped = 0

C16_Witness ==
  /\ run.done /\ ~run.listOk
  /\ Len(run.urls) = 2
  /\ run.names[1] \in run.preNames /\ run.names[2] \in run.preNames
  /\ run.outcomes = <<"uploaded", "uploaded">>
  /\ run.uploaded = 2 /\ run.skipped = 0

\* C17: at most one store has the uploader's display name, whatever runs
\* came before and whatever store-listing calls failed.
C17_AtMostOneStoreCreated ==
  Cardinality({k \in 1..Len(stores) : stores[k] = storeName}) <= 1

(***************************************************************************)
(* Claims about POST /query (checked under SpecQuery)                      *)
(***************************************************************************)
RECURSIVE ContainsTurnsFrom(_, _, _)
\* prompt holds "role: content" for each of the turns, in order, from index from on
ContainsTurnsFrom(prompt, turns, from) ==
  IF turns = <<>> THEN TRUE
  ELSE \E k \in from..(Len(prompt) - 2) :
         /\ SubSeq(prompt, k, k + 2) = <<Head(turns).Role, ": ", Head(turns).Content>>
         /\ ContainsTurnsFrom(prompt, Tail(turns), k + 3)

EndsWith(prompt, question) ==
  /\ Len(prompt) >= Len(question)
  /\ SubSeq(prompt, Len(prompt) - Len(question) + 1, Len(prompt)) = question

\* C5: the prompt passed to the generation call holds "role: content" for
\* every history turn, in order, and ends with the question; without history
\* it is the question.
C5_HistoryComposition ==
  \A k \in 1..Len(calls) :
    calls[k].call = "GenerateContent" =>
      IF req.body.History = <<>>
      THEN calls[k].prompt = req.body.Query
      ELSE /\ ContainsTurnsFrom(calls[k].prompt, req.body.History, 1)
           /\ EndsWith(calls[k].prompt, req.body.Query)

CallFailed(name) == \E k \in 1..Len(calls) : calls[k].call = name /\ ~calls[k].ok

StoreExists(displayName) == \E k \in 1..Len(stores) : stores[k] = displayName

\* the status the failure that occurred calls for
ExpectedStatus ==
  IF req.body.malformed \/ req.body.Query = <<>> \/ req.body.StoreName = <<>> THEN 400
  ELSE IF CallFailed("ListStores") THEN 500
  ELSE IF ~StoreExists(req.body.StoreName) THEN 404
  ELSE IF CallFailed("GenerateContent") THEN 500
  ELSE 200

\* C6: the status of the answer to a POST /query is 400 for a bad request,
\* 404 when no store has the display name, 500 when a gateway call failed,
\* and 200 otherwise.
C6_StatusMatchesFailure ==
  (qpc = "responded" /\ req.method = "POST")
    => Deref(httpResp).status = ExpectedStatus

(***************************************************************************)
(* Claims about normalisation (checked under SpecNormalize)                *)
(***************************************************************************)
\* C7: parseResponse returns for every generated result, whatever optional
\* fields are missing, and a result without citations or without parts gives
\* empty collections.
C7_NormalizeNeverPanics ==
  /\ qpc # "panicked"
  /\ ~IsNil(parsed) =>
       /\ ~Deref(parsed).panicked
       /\ TotalCitations(raw) = 0 => Deref(parsed).Citations = <<>>
       /\ TotalParts(raw) = 0 => Deref(parsed).Parts = <<>>

\* the grounding chunks of the normalised result
ResultChunks ==
  IF IsNil(Deref(parsed).GroundingSupport) THEN <<>>
  ELSE Deref(Deref(parsed).GroundingSupport).GroundingChunks

FileChunkIndexes == {k \in 1..Len(ResultChunks) : ~IsNil(ResultChunks[k].File)}

FileNameAt(k) == Deref(ResultChunks[k].File).FileName

\* the index of the first file chunk with the file name
FirstIndexOf(name) ==
  CHOOSE k \in FileChunkIndexes :
    /\ FileNameAt(k) = name
    /\ \A j \in FileChunkIndexes : FileNameAt(j) = name => k <= j

\* C8: the source list of a query result has one entry per distinct file
\* name of the file chunks, the entry of the first chunk with that name, in
\* the order of first occurrence; the querier prints the same names.
C8_SourcesFirstOccurrence ==
  qpc = "responded" =>
    LET sources == Deref(httpResp).body.Sources
    IN  /\ \A j, k \in 1..Len(sources) :
              j # k => sources[j].FileName # sources[k].FileName
        /\ {sources[k].FileName : k \in 1..Len(sources)}
             = {FileNameAt(k) : k \in FileChunkIndexes}
        /\ \A k \in 1..Len(sources) :
              sources[k].URI
                = Deref(ResultChunks[FirstIndexOf(sources[k].FileName)].File).URI
        /\ \A j, k \in 1..Len(sources) :
              j < k => FirstIndexOf(sources[j].FileName) < FirstIndexOf(sources[k].FileName)
        /\ QuerierSources(Deref(parsed))
             = [k \in 1..Len(sources) |-> sources[k].FileName]

C8_Witness ==
  /\ qpc = "responded"
  /\ Len(ResultChunks) = 4
  /\ FileChunkIndexes = 1..4
  /\ [k \in 1..4 |-> FileNameAt(k)] = <<"fileA", "fileB", "fileA", "fileC">>
  /\ Deref(httpResp).body.Sources
       = <<[FileName |-> "fileA", URI |-> "ua"], [FileName |-> "fileB", URI |-> "ub"],
           [FileName |-> "fileC", URI |-> "uc"]>>

RECURSIVE RawCitations(_)
\* the citation entries of a generated result, in emitted order
RawCitations(cands) ==
  IF cands = <<>> THEN <<>>
  ELSE (IF IsNil(Head(cands).CitationMetadata) THEN <<>>
        ELSE Deref(Head(cands).CitationMetadata).Citations)
       \o RawCitations(Tail(cands))

\* C9: the result has one Citation per raw citation entry, in raw order, with
\* the raw offsets, and with one Source exactly when the entry has a URI.
C9_OneCitationPerEntry ==
  qpc = "responded" =>
    LET rawCitations == RawCitations(raw)
        citations == Deref(httpResp).body.Citations
    IN  /\ Len(citations) = Len(rawCitations)
        /\ citations = Deref(parsed).Citations
        /\ \A k \in 1..Len(citations) :
              /\ citations[k].StartIndex = rawCitations[k].StartIndex
              /\ citations[k].EndIndex = rawCitations[k].EndIndex
              /\ IF rawCitations[k].URI # ""
                 THEN citations[k].Sources
                        = <<[Title |-> rawCitations[k].Title, URI |-> rawCitations[k].URI]>>
                 ELSE citations[k].Sources = <<>>

C9_Witness ==
  /\ qpc = "responded"
  /\ RawCitations(raw) = <<CitationWithURI, CitationNoURI>>
  /\ Deref(httpResp).body.Citations[2]
       = [StartIndex |-> 10, EndIndex |-> 25, Sources |-> <<>>]


\* C12: no grounding chunk of a normalised result has both its Web and its
\* File part set, whatever the raw chunk carried.
C12_ChunkIsOneVariant ==
  (~IsNil(parsed) /\ ~Deref(parsed).panicked) =>
    \A k \in 1..Len(ResultChunks) :
      IsNil(ResultChunks[k].Web) \/ IsNil(ResultChunks[k].File)

RECURSIVE RawPartTexts(_)
\* the text of every part of a generated result, in emitted order
RawPartTexts(cands) ==
  IF cands = <<>> THEN <<>>
  ELSE LET parts == Deref(Head(cands).Content).Parts
       IN  [k \in 1..Len(parts) |-> Deref(parts[k]).Text] \o RawPartTexts(Tail(cands))

RECURSIVE CharsOf(_, _)
\* the characters of texts[k], texts[k + 1], ..., one after the other
CharsOf(texts, k) ==
  IF k > Len(texts) THEN <<>> ELSE texts[k] \o CharsOf(texts, k + 1)

\* C13: the answer of a query result is the text of the non-empty parts of
\* all candidates, in candidate order and then part order: the kept parts
\* are the non-empty raw parts in raw order, and the answer is their
\* characters in that order.
C13_AnswerIsConcatenation ==
  qpc = "responded" =>
    LET texts == RawPartTexts(raw)
    IN  /\ Deref(parsed).Parts = SelectSeq(texts, LAMBDA t : t # <<>>)
        /\ Deref(httpResp).body.Answer = CharsOf(texts, 1)

C13_Witness ==
  /\ qpc = "responded"
  /\ Len(raw) = 2
  /\ RawPartTexts(raw) = <<<<"a", "b">>, <<>>, <<"c">>>>
  /\ NumParts(raw[1]) = 2
  /\ Deref(parsed).Parts = <<<<"a", "b">>, <<"c">>>>
  /\ Deref(httpResp).body.Answer = <<"a", "b", "c">>

RECURSIVE RawChunks(_)
\* the grounding chunks of a generated result, in emitted order
RawChunks(cands) ==
  IF cands = <<>> THEN <<>>
  ELSE (IF IsNil(Head(cands).GroundingMetadata) THEN <<>>
        ELSE Deref(Head(cands).GroundingMetadata).GroundingChunks)
       \o RawChunks(Tail(cands))

\* C18: the grounding chunks of a normalised result are the raw chunks of
\* all candidates, one entry each, in emitted order: entry k has a Web part
\* when raw chunk k has one, and a File part when raw chunk k has a
\* retrieved context with a URI.
C18_OneChunkPerRawChunk ==
  (~IsNil(parsed) /\ ~Deref(parsed).panicked) =>
    LET rawChunks == RawChunks(raw)
    IN  /\ Len(ResultChunks) = Len(rawChunks)
        /\ \A k \in 1..Len(ResultChunks) :
              /\ IsNil(ResultChunks[k].Web) <=> IsNil(rawChunks[k].Web)
              /\ ~IsNil(ResultChunks[k].File) <=>
                    /\ ~IsNil(rawChunks[k].RetrievedContext)
                    /\ Deref(rawChunks[k].RetrievedContext).URI # ""

\* the text of one candidate: its parts, joined
CandidateText(c) ==
  LET parts == Deref(c.Content).Parts
  IN  CharsOf([k \in 1..Len(parts) |-> Deref(parts[k]).Text], 1)

\* the citations of one candidate
CitationsIn(c) ==
  IF IsNil(c.CitationMetadata) THEN <<>> ELSE Deref(c.CitationMetadata).Citations

\* every raw citation is a span of the text of its own candidate
RawCitationsValid(cands) ==
  \A j \in 1..Len(cands) : \A k \in 1..Len(CitationsIn(cands[j])) :
    LET ci == CitationsIn(cands[j])[k]
    IN  0 <= ci.StartIndex /\ ci.StartIndex <= ci.EndIndex
          /\ ci.EndIndex <= Len(CandidateText(cands[j]))

RECURSIVE DesignatedTexts(_)
\* for each raw citation, in emitted order, the text it designates in its
\* candidate
DesignatedTexts(cands) ==
  IF cands = <<>> THEN <<>>
  ELSE LET c == Head(cands)
           cis == CitationsIn(c)
       IN  [k \in 1..Len(cis) |->
              SubSeq(CandidateText(c), cis[k].StartIndex + 1, cis[k].EndIndex)]
           \o DesignatedTexts(Tail(cands))

\* C19: when every raw citation is a span of its candidate's text, every
\* Citation of the query result has StartIndex <= EndIndex, both within the
\* answer, and the span of the answer they delimit is the text the raw
\* citation designated.
C19_CitationSpansAnswer ==
  (qpc = "responded" /\ RawCitationsValid(raw)) =>
    LET citations == Deref(httpResp).body.Citations
        answer == Deref(httpResp).body.Answer
        designated == DesignatedTexts(raw)
    IN  /\ Len(citations) = Len(designated)
        /\ \A k \in 1..Len(citations) :
              /\ citations[k].StartIndex <= citations[k].EndIndex
              /\ citations[k].EndIndex <= Len(answer)
              /\ SubSeq(answer, citations[k].StartIndex + 1, citations[k].EndIndex)
                   = designated[k]

(***************************************************************************)
(* Claims about the request surface (checked under SpecSurface)            *)
(***************************************************************************)
\* the value a JSON body carries under the key "error": QueryResponse
\* encodes its Error field under that key
ErrorFieldOf(body) ==
  IF "Error" \in DOMAIN body THEN body.Error
  ELSE IF "error" \in DOMAIN body THEN body.error
  ELSE ""

\* C14: every failure response of /query, /stores and /documents, a wrong
\* method included, is a JSON body with a non-empty error field.
C14_FailuresAreJSON ==
  (qpc = "responded" /\ Deref(httpResp).status # 200)
    => /\ Deref(httpResp).json
       /\ ErrorFieldOf(Deref(httpResp).body) # ""

(***************************************************************************)
(* Claims about concurrent requests (checked under SpecConcurrent)         *)
(***************************************************************************)
\* the store a request resolves when it is served alone
SoloStore(request, replies) == GetStoreByName(replies.listOk, request.body.StoreName)

\* the response a request gets when it is served alone and the gateway
\* replies to its calls as recorded; Nil when the handler does not respond
SoloResponse(request, replies) ==
  IF request.method # "POST" THEN PlainError(405, "Method not allowed")
  ELSE IF request.body.malformed THEN JSONError(400, "Invalid request body")
  ELSE IF request.body.Query = <<>> THEN JSONError(400, "Query is required")
  ELSE IF request.body.StoreName = <<>> THEN JSONError(400, "StoreName is required")
  ELSE IF ~replies.listed THEN Nil
  ELSE IF SoloStore(request, replies).err # NIL THEN JSONError(404, "Store not found")
  ELSE IF ~replies.generated THEN Nil
  ELSE IF ~replies.genOk THEN JSONError(500, "Failed to execute query")
  ELSE LET resp == parseResponse(replies.raw)
       IN  IF resp.panicked THEN Nil ELSE JSONOk(QueryResponseOf(resp))

\* C15: under every interleaving of the requests, the generation call a
\* request makes carries its own question and its own store, the response
\* written to it is the one it gets when served alone with the same replies
\* of the gateway, and the state the requests share is not changed.
C15_RequestsDoNotInterfere ==
  /\ svc = NewService
  /\ \A r \in RequestIds :
        /\ crep[r].generated =>
              /\ crep[r].prompt = FullPrompt(cin[r].body.Query, HistoryArg(cin[r].body.History))
              /\ crep[r].storeNames = <<SoloStore(cin[r], crep[r]).store>>
              /\ crep[r].model = NewService.modelName
        /\ cpc[r] = "responded" => cout[r] = SoloResponse(cin[r], crep[r])
        /\ cpc[r] # "responded" => IsNil(cout[r])

C15_Witness ==
  /\ cpc[1] = "generated" /\ crep[1].storeNames = <<2>>
  /\ cpc[2] = "responded" /\ crep[2].storeNames = <<1>>
  /\ Deref(cout[2]).status = 200
  /\ Deref(cout[2]).body.Answer = <<"c">>
  /\ crep[1].raw # crep[2].raw

=============================================================================
